---- MODULE Spec2Model ----
(***************************************************************************)
(* A model of the BibTeX parser of src/bibtex-parser.js: the class         *)
(* BibtexParser with its instance field `entries`, the method parse and    *)
(* the method parseFields.  JavaScript strings are TLA+ strings, indexed   *)
(* from 0 as in the source (CharAt, Substring, IndexOf); the regular       *)
(* expressions of the source are translated into the scans they perform.   *)
(***************************************************************************)
EXTENDS Integers, Sequences, FiniteSets, TLC

VARIABLES
    heap,       \* the arrays allocated so far: heap[r] is the content of array r
    entries,    \* this.entries: a reference into heap
    returned,   \* the references parse has returned to its callers, in call order
    inputs,     \* the text handed to each of these calls
    doc,        \* the items of the document of a single parse call
    body,       \* the assignments of the body of a single parseFields call
    fields,     \* the mapping that call returned
    pc          \* "calls", or the position of the single call: "start" / "done"

vars == <<heap, entries, returned, inputs, doc, body, fields, pc>>

-----------------------------------------------------------------------------
(* JavaScript string primitives *)

Min(a, b) == IF a < b THEN a ELSE b

Max(a, b) == IF a < b THEN b ELSE a

\* s[i] (the empty string stands for the undefined of an index out of range)
CharAt(s, i) == IF i >= 0 /\ i < Len(s) THEN SubSeq(s, i + 1, i + 1) ELSE ""

\* s.substring(a, b): both arguments clamped to 0..s.length, swapped if a > b
Substring(s, a, b) ==
    LET ca == Max(0, Min(a, Len(s)))
        cb == Max(0, Min(b, Len(s)))
    IN  SubSeq(s, Min(ca, cb) + 1, Max(ca, cb))

\* the first index of lo..hi at which P is true, hi + 1 if there is none:
\* where a scan that advances one character at a time stops
First(lo, hi, P) ==
    IF \E i \in lo..hi : P[i]
    THEN CHOOSE i \in lo..hi : P[i] /\ \A j \in lo..(i - 1) : ~P[j]
    ELSE hi + 1

\* s.indexOf(c, from) for a one-character c: -1 if there is none
IndexOf(s, c, from) ==
    LET i == First(from, Len(s) - 1, [j \in Nat |-> CharAt(s, j) = c])
    IN  IF i >= Len(s) THEN -1 ELSE i

UpperCase == "ABCDEFGHIJKLMNOPQRSTUVWXYZ"

LowerCase == "abcdefghijklmnopqrstuvwxyz"

Digits == "0123456789"

WordChars ==
    {SubSeq(UpperCase, i, i) : i \in 1..Len(UpperCase)}
        \cup {SubSeq(LowerCase, i, i) : i \in 1..Len(LowerCase)}
        \cup {SubSeq(Digits, i, i) : i \in 1..Len(Digits)}
        \cup {"_"}

\* the class \w of the regular expressions: [A-Za-z0-9_]
IsWord(c) == c \in WordChars

\* the class \s of the regular expressions
IsSpace(c) == c \in {" ", "\t", "\n", "\r", "\f"}

LowerChar(c) ==
    IF \E i \in 1..Len(UpperCase) : SubSeq(UpperCase, i, i) = c
    THEN LET i == CHOOSE j \in 1..Len(UpperCase) : SubSeq(UpperCase, j, j) = c
         IN  SubSeq(LowerCase, i, i)
    ELSE c

RECURSIVE ToLowerCase(_)
\* s.toLowerCase()
ToLowerCase(s) ==
    IF s = "" THEN "" ELSE LowerChar(Head(s)) \o ToLowerCase(Tail(s))

RECURSIVE TrimStart(_)
TrimStart(s) ==
    IF s # "" /\ IsSpace(Head(s)) THEN TrimStart(Tail(s)) ELSE s

RECURSIVE TrimEnd(_)
TrimEnd(s) ==
    IF s # "" /\ IsSpace(CharAt(s, Len(s) - 1))
    THEN TrimEnd(SubSeq(s, 1, Len(s) - 1))
    ELSE s

\* s.trim()
Trim(s) == TrimEnd(TrimStart(s))

-----------------------------------------------------------------------------
(* parse, lines 17-20: the removal of comments *)

RECURSIVE StripPercentFrom(_, _)
\* the text of s from index i on with every match of /%[^\n]*/ deleted: a
\* match runs from a % to the end of its line, the line break not included
StripPercentFrom(s, i) ==
    LET p == IndexOf(s, "%", i)
        nl == IndexOf(s, "\n", p)
    IN  IF p = -1 THEN Substring(s, i, Len(s))
        ELSE IF nl = -1 THEN Substring(s, i, p)
        ELSE Substring(s, i, p) \o StripPercentFrom(s, nl)

\* bibtexString.replace(/%[^\n]*/g, '')
StripPercent(s) == StripPercentFrom(s, 0)

\* ^ under the flag m: the start of the text or the position after a line break
AtLineStart(s, i) == i = 0 \/ CharAt(s, i - 1) \in {"\n", "\r"}

\* the end of the run [ \t]* that starts at index i
SkipBlanks(s, i) ==
    First(i, Len(s) - 1, [j \in Nat |-> CharAt(s, j) \notin {" ", "\t"}])

RECURSIVE StripHashFrom(_, _)
\* the text of s from index i on with every match of /^[ \t]*#[^\n]*/m
\* deleted: a match starts at a line start and runs to the end of the line;
\* the text in between is kept up to the next line start
StripHashFrom(s, i) ==
    IF i >= Len(s) THEN ""
    ELSE IF AtLineStart(s, i) /\ CharAt(s, SkipBlanks(s, i)) = "#"
         THEN LET nl == IndexOf(s, "\n", i)
              IN  IF nl = -1 THEN ""
                  ELSE "\n" \o StripHashFrom(s, nl + 1)
         ELSE LET e == First(i + 1, Len(s) - 1,
                             [j \in Nat |-> AtLineStart(s, j)])
              IN  Substring(s, i, e) \o StripHashFrom(s, e)

\* cleanedString.replace(/^[ \t]*#[^\n]*/gm, '')
StripHash(s) == StripHashFrom(s, 0)

\* cleanedString of parse
Cleaned(bibtexString) == StripHash(StripPercent(bibtexString))

-----------------------------------------------------------------------------
(* parse, lines 22-36: the entry headers *)

\* the end of the run \w* that starts at index i
WordEnd(s, i) == First(i, Len(s) - 1, [j \in Nat |-> ~IsWord(CharAt(s, j))])

NoMatch == [found |-> FALSE]

\* the match of /@(\w+)\{([^,]+),/ that starts at index p, if there is one:
\* \w+ is the whole run of word characters (what follows it is the brace) and
\* [^,]+ is everything up to the next comma, at least one character
HeaderMatchAt(s, p) ==
    LET w == WordEnd(s, p + 1)
        c == IndexOf(s, ",", w + 1)
    IN  IF /\ CharAt(s, p) = "@"
           /\ w > p + 1
           /\ CharAt(s, w) = "{"
           /\ c > w + 1
        THEN [found |-> TRUE,
              index |-> p,
              group1 |-> Substring(s, p + 1, w),
              group2 |-> Substring(s, w + 1, c),
              end |-> c + 1]
        ELSE NoMatch

\* lines 28-35: the entry start pushed for a match, none for the type string
EntryStartOf(m) ==
    IF ToLowerCase(m.group1) # "string"
    THEN << [index |-> m.index,
             type |-> m.group1,
             key |-> Trim(m.group2),
             afterComma |-> m.end] >>
    ELSE << >>

RECURSIVE EntryStartsFrom(_, _)
\* the loop of entryStartRegex.exec with lastIndex = pos: each exec returns the
\* leftmost match at or after lastIndex and moves lastIndex to its end
EntryStartsFrom(s, pos) ==
    LET p == First(pos, Len(s) - 1, [j \in Nat |-> HeaderMatchAt(s, j).found])
    IN  IF p >= Len(s) THEN << >>
        ELSE EntryStartOf(HeaderMatchAt(s, p))
                 \o EntryStartsFrom(s, HeaderMatchAt(s, p).end)

\* entryStarts of parse
EntryStarts(s) == EntryStartsFrom(s, 0)

-----------------------------------------------------------------------------
(* parse, lines 38-67: the closing brace of each entry *)

RECURSIVE CountBraces(_, _, _)
\* the loop of lines 46-53: i and braceCount when it ends.  The characters
\* that are no brace only advance i, up to the next brace b
CountBraces(s, i, braceCount) ==
    LET b == First(i, Len(s) - 1, [j \in Nat |-> CharAt(s, j) \in {"{", "}"}])
    IN  IF i < Len(s) /\ braceCount > 0
        THEN IF b >= Len(s) THEN [i |-> Len(s), braceCount |-> braceCount]
             ELSE IF CharAt(s, b) = "{"
                  THEN CountBraces(s, b + 1, braceCount + 1)
                  ELSE CountBraces(s, b + 1, braceCount - 1)
        ELSE [i |-> i, braceCount |-> braceCount]

\* lines 41-53 for one entry start
ScanEntry(s, start) ==
    CountBraces(s, IndexOf(s, "{", start.index) + 1, 1)

\* line 57
FieldsString(s, start) ==
    Substring(s, start.afterComma, ScanEntry(s, start).i - 1)

-----------------------------------------------------------------------------
(* parseFields, lines 75-90 *)

\* the end of the run \s* that starts at index i
SkipSpaces(s, i) ==
    First(i, Len(s) - 1, [j \in Nat |-> ~IsSpace(CharAt(s, j))])

\* the end of the run [^{}]* that starts at index i
SkipNonBrace(s, i) ==
    First(i, Len(s) - 1, [j \in Nat |-> CharAt(s, j) \in {"{", "}"}])

\* the regular expression without (?:\{[^{}]*\}[^{}]*)*: no nested group
SkipGroupsNone(s, i) == i

RECURSIVE SkipGroups(_, _)
\* the end of (?:\{[^{}]*\}[^{}]*)* that starts at index i: one iteration per
\* brace group that holds no brace
SkipGroups(s, i) ==
    LET g == SkipNonBrace(s, i + 1)
    IN  IF CharAt(s, i) = "{" /\ CharAt(s, g) = "}"
        THEN SkipGroups(s, SkipNonBrace(s, g + 1))
        ELSE i

\* the end of the run [^,\s]* that starts at index i
SkipToken(s, i) ==
    First(i, Len(s) - 1,
          [j \in Nat |-> CharAt(s, j) = "," \/ IsSpace(CharAt(s, j))])

\* a capture group of a match: one that took no part in the match is undefined
Undefined == [defined |-> FALSE, text |-> ""]

Group(t) == [defined |-> TRUE, text |-> t]

\* a || b of JavaScript on capture groups: undefined and '' are falsy
OrElse(a, b) == IF a.defined /\ a.text # "" THEN a ELSE b

\* the index after (\w+)\s*=\s* when it matches at index p, -1 otherwise
AfterEquals(s, p) ==
    LET w == WordEnd(s, p)
        e == SkipSpaces(s, w)
    IN  IF w > p /\ CharAt(s, e) = "=" THEN SkipSpaces(s, e + 1) ELSE -1

\* first alternative: (\w+)\s*=\s*\{([^{}]*(?:\{[^{}]*\}[^{}]*)*)\}
BraceValueAt(s, p) ==
    LET v == AfterEquals(s, p)
        e == SkipGroups(s, SkipNonBrace(s, v + 1))
    IN  IF v # -1 /\ CharAt(s, v) = "{" /\ CharAt(s, e) = "}"
        THEN [found |-> TRUE, end |-> e + 1,
              groups |-> << Group(Substring(s, p, WordEnd(s, p))),
                            Group(Substring(s, v + 1, e)),
                            Undefined, Undefined, Undefined, Undefined >>]
        ELSE NoMatch

\* second alternative: (\w+)\s*=\s*"([^"]*)"
QuotedValueAt(s, p) ==
    LET v == AfterEquals(s, p)
        q == IndexOf(s, "\"", v + 1)
    IN  IF v # -1 /\ CharAt(s, v) = "\"" /\ q # -1
        THEN [found |-> TRUE, end |-> q + 1,
              groups |-> << Undefined, Undefined,
                            Group(Substring(s, p, WordEnd(s, p))),
                            Group(Substring(s, v + 1, q)),
                            Undefined, Undefined >>]
        ELSE NoMatch

\* third alternative: (\w+)\s*=\s*([^,\s]+)
BareValueAt(s, p) ==
    LET v == AfterEquals(s, p)
        e == SkipToken(s, v)
    IN  IF v # -1 /\ e > v
        THEN [found |-> TRUE, end |-> e,
              groups |-> << Undefined, Undefined, Undefined, Undefined,
                            Group(Substring(s, p, WordEnd(s, p))),
                            Group(Substring(s, v, e)) >>]
        ELSE NoMatch

\* the match of fieldRegex that starts at index p: the alternatives in order
FieldMatchAt(s, p) ==
    IF BraceValueAt(s, p).found THEN BraceValueAt(s, p)
    ELSE IF QuotedValueAt(s, p).found THEN QuotedValueAt(s, p)
    ELSE BareValueAt(s, p)

EmptyFields == [n \in {} |-> ""]

\* fields[fieldName] = value, only if fieldName is not set yet
PutFirst(f, name, value) ==
    [n \in DOMAIN f \cup {name} |-> IF n \in DOMAIN f THEN f[n] ELSE value]

\* fields[fieldName] = value
Put(f, name, value) ==
    [n \in DOMAIN f \cup {name} |-> IF n = name THEN value ELSE f[n]]

\* lines 82-86: the body of the loop for one match
StoreField(f, m) ==
    LET fieldName == ToLowerCase(
            OrElse(OrElse(m.groups[1], m.groups[3]), m.groups[5]).text)
        fieldValue == OrElse(OrElse(m.groups[2], m.groups[4]), m.groups[6])
    IN  IF fieldValue.defined
        THEN Put(f, fieldName, Trim(fieldValue.text))
        ELSE f

RECURSIVE ParseFieldsFrom(_, _, _)
\* the loop of fieldRegex.exec with lastIndex = pos: each exec returns the
\* leftmost match at or after lastIndex and moves lastIndex to its end
ParseFieldsFrom(s, pos, f) ==
    LET p == First(pos, Len(s) - 1, [j \in Nat |-> FieldMatchAt(s, j).found])
    IN  IF p >= Len(s) THEN f
        ELSE ParseFieldsFrom(s, FieldMatchAt(s, p).end,
                             StoreField(f, FieldMatchAt(s, p)))

\* parseFields(fieldsString)
ParseFields(fieldsString) == ParseFieldsFrom(fieldsString, 0, EmptyFields)

-----------------------------------------------------------------------------
(* parse, lines 55-69: the entries *)

\* lines 55-66 for one entry start: the entry pushed, none if the braces do
\* not close
EntryOf(s, start) ==
    IF ScanEntry(s, start).braceCount = 0
    THEN << [type |-> ToLowerCase(start.type),
             key |-> start.key,
             fields |-> ParseFields(FieldsString(s, start))] >>
    ELSE << >>

RECURSIVE EntriesOf(_, _, _)
\* the loop of line 39 from the k-th entry start on
EntriesOf(s, starts, k) ==
    IF k > Len(starts) THEN << >>
    ELSE EntryOf(s, starts[k]) \o EntriesOf(s, starts, k + 1)

\* the entries parse pushes for bibtexString, in the order it pushes them
ParseEntries(bibtexString) ==
    LET cleanedString == Cleaned(bibtexString)
    IN  EntriesOf(cleanedString, EntryStarts(cleanedString), 1)

-----------------------------------------------------------------------------
(* The instance: constructor, lines 7-9, and parse, lines 14-70 *)

\* line 15 left out: parse goes on with the array it has
ResetEntriesKept(h, e) == [heap |-> h, entries |-> e]

\* line 15, this.entries = []: a new array; the one this.entries referred to
\* stays as it is, for whoever still holds it
ResetEntries(h, e) == [heap |-> Append(h, << >>), entries |-> Len(h) + 1]

\* line 65, this.entries.push(entry), for each entry of es in turn
PushAll(h, e, es) == [h EXCEPT ![e] = @ \o es]

\* parse(bibtexString): line 15, the pushes of lines 17-67, and line 69, which
\* hands this.entries itself to the caller
ParseCall(bibtexString) ==
    LET r == ResetEntries(heap, entries)
    IN  /\ heap' = PushAll(r.heap, r.entries, ParseEntries(bibtexString))
        /\ entries' = r.entries
        /\ returned' = Append(returned, r.entries)
        /\ inputs' = Append(inputs, bibtexString)

\* new BibtexParser()
Constructed ==
    /\ heap = << << >> >>
    /\ entries = 1
    /\ returned = << >>
    /\ inputs = << >>

-----------------------------------------------------------------------------
(* The documents parse is called on: up to MaxItems items, one per line *)

MaxItems == 3

MaxCalls == 3

MaxFields == 3

\* kind: what the item is; text: its source text; type, key, fields: the entry
\* a BibTeX reader takes from it, for the kinds that are entries
Items ==
    [W1 |-> [kind |-> "entry",
             text |-> "@article{k1, title={T}, year={2020}}",
             type |-> "article", key |-> "k1",
             fields |-> ("title" :> "T") @@ ("year" :> "2020")],
     W2 |-> [kind |-> "entry",
             text |-> "@misc{k2, year=2019}",
             type |-> "misc", key |-> "k2",
             fields |-> ("year" :> "2019")],
     W3 |-> [kind |-> "entry",
             text |-> "@InProceedings{k3,\n  Title = \"A {B} c\",\n  month = feb,\n}",
             type |-> "inproceedings", key |-> "k3",
             fields |-> ("title" :> "A {B} c") @@ ("month" :> "feb")],
     S1 |-> [kind |-> "string",
             text |-> "@string{s = \"v\"}",
             type |-> "string", key |-> "", fields |-> EmptyFields],
     S2 |-> [kind |-> "string",
             text |-> "@STRING{p = {P, Q}}",
             type |-> "string", key |-> "", fields |-> EmptyFields],
     L1 |-> [kind |-> "comment",
             text |-> "% not an entry",
             type |-> "", key |-> "", fields |-> EmptyFields],
     L2 |-> [kind |-> "comment",
             text |-> "  # @misc{k0, year=2000}",
             type |-> "", key |-> "", fields |-> EmptyFields],
     U1 |-> [kind |-> "unterminated",
             text |-> "@book{k4, title={U}",
             type |-> "book", key |-> "k4",
             fields |-> ("title" :> "U")],
     U2 |-> [kind |-> "unterminated",
             text |-> "@book{k9",
             type |-> "book", key |-> "k9", fields |-> EmptyFields],
     N1 |-> [kind |-> "nested",
             text |-> "@misc{k5, note={see @book{k6, p.1}}}",
             type |-> "misc", key |-> "k5",
             fields |-> ("note" :> "see @book{k6, p.1}")],
     B1 |-> [kind |-> "blankkey",
             text |-> "@misc{ , year={2021}}",
             type |-> "misc", key |-> "",
             fields |-> ("year" :> "2021")],
     K1 |-> [kind |-> "keyonly",
             text |-> "@misc{k7}",
             type |-> "misc", key |-> "k7", fields |-> EmptyFields],
     P1 |-> [kind |-> "percent",
             text |-> "@misc{k8, note={50% off}}",
             type |-> "misc", key |-> "k8",
             fields |-> ("note" :> "50% off")]]

ItemNames == DOMAIN Items

\* the sequences over S of length at most n
RECURSIVE SeqsUpTo(_, _)
SeqsUpTo(S, n) ==
    IF n = 0 THEN {<< >>}
    ELSE LET shorter == SeqsUpTo(S, n - 1)
         IN  shorter \cup {Append(q, x) : q \in shorter, x \in S}

Documents == SeqsUpTo(ItemNames, MaxItems)

RECURSIVE DocText(_)
\* the text of a document: each item on a line of its own
DocText(d) ==
    IF d = << >> THEN ""
    ELSE Items[Head(d)].text \o "\n" \o DocText(Tail(d))

\* the entry a BibTeX reader takes from an item
EntryOfItem(name) ==
    [type |-> Items[name].type, key |-> Items[name].key,
     fields |-> Items[name].fields]

\* the documents of the repeated calls on one instance: none or one of these
CallDocuments == SeqsUpTo({"W1", "W2", "U1", "N1"}, 1)

-----------------------------------------------------------------------------
(* Spec: one instance and up to MaxCalls calls of parse on it *)

Init ==
    /\ Constructed
    /\ doc = << >>
    /\ body = << >>
    /\ fields = EmptyFields
    /\ pc = "calls"

Parse ==
    /\ pc = "calls"
    /\ Len(returned) < MaxCalls
    /\ \E d \in CallDocuments : ParseCall(DocText(d))
    /\ UNCHANGED <<doc, body, fields, pc>>

Next == Parse

Spec == Init /\ [][Next]_vars

-----------------------------------------------------------------------------
(* SpecParse: a fresh instance and one call of parse on a document *)

InitParse ==
    /\ Constructed
    /\ doc \in Documents
    /\ body = << >>
    /\ fields = EmptyFields
    /\ pc = "start"

ParseDocument ==
    /\ pc = "start"
    /\ ParseCall(DocText(doc))
    /\ pc' = "done"
    /\ UNCHANGED <<doc, body, fields>>

NextParse == ParseDocument

SpecParse == InitParse /\ [][NextParse]_vars

\* the entry list the call returned
Result == heap[returned[Len(returned)]]

-----------------------------------------------------------------------------
(* The entry bodies parseFields is called on: up to MaxFields assignments *)

\* shape: how the value is written; content: what stands between its
\* delimiters (for a bare value, the token itself)
BraceValues ==
    {[shape |-> "brace", content |-> c] :
        c \in {"a", "", " ", "nested {inner} text", " {x} y {z} ", "a{b{c}}"}}

QuotedValues ==
    {[shape |-> "quote", content |-> c] : c \in {"q", ""}}

BareValues == {[shape |-> "bare", content |-> "feb"]}

\* a quoted value with no closing quote
OpenValues == {[shape |-> "open", content |-> "abc"]}

Values == BraceValues \cup QuotedValues \cup BareValues \cup OpenValues

Assignment(n, v) == [name |-> n, shape |-> v.shape, content |-> v.content]

Assignments ==
    {Assignment("t", v) : v \in Values}
        \cup {Assignment("T", [shape |-> "brace", content |-> "b"]),
              Assignment("y", [shape |-> "bare", content |-> "2019"])}

Bodies == SeqsUpTo(Assignments, MaxFields)

\* the value as it is written in the body
ValueText(a) ==
    CASE a.shape = "brace" -> "{" \o a.content \o "}"
      [] a.shape = "quote" -> "\"" \o a.content \o "\""
      [] a.shape = "bare" -> a.content
      [] a.shape = "open" -> "\"" \o a.content

RECURSIVE BodyText(_)
\* the text of a body: each assignment on a line of its own, a comma after it
BodyText(b) ==
    IF b = << >> THEN "\n"
    ELSE "\n  " \o Head(b).name \o " = " \o ValueText(Head(b)) \o ","
             \o BodyText(Tail(b))

-----------------------------------------------------------------------------
(* SpecFields: one call of parseFields on an entry body *)

InitFields ==
    /\ Constructed
    /\ doc = << >>
    /\ body \in Bodies
    /\ fields = EmptyFields
    /\ pc = "start"

ParseFieldsCall ==
    /\ pc = "start"
    /\ fields' = ParseFields(BodyText(body))
    /\ pc' = "done"
    /\ UNCHANGED <<heap, entries, returned, inputs, doc, body>>

NextFields == ParseFieldsCall

SpecFields == InitFields /\ [][NextFields]_vars

-----------------------------------------------------------------------------
(* What the specification says of an assignment, for the claims below *)

RECURSIVE DepthFrom(_, _, _, _)
\* the deepest nesting of braces in s from index i on, at depth d with the
\* deepest so far m; -1 if a brace closes that was not opened or one stays open
DepthFrom(s, i, d, m) ==
    LET b == First(i, Len(s) - 1, [j \in Nat |-> CharAt(s, j) \in {"{", "}"}])
    IN  IF b >= Len(s) THEN (IF d = 0 THEN m ELSE -1)
        ELSE IF CharAt(s, b) = "{"
             THEN DepthFrom(s, b + 1, d + 1, Max(m, d + 1))
             ELSE IF d = 0 THEN -1 ELSE DepthFrom(s, b + 1, d - 1, m)

BraceDepth(s) == DepthFrom(s, 0, 0, 0)

\* the three recognized shapes: a brace-delimited value with at most one level
\* of nested braces, a double-quote-delimited value, a bare token
Recognized(a) ==
    CASE a.shape = "brace" -> BraceDepth(a.content) \in {0, 1}
      [] a.shape = "quote" -> IndexOf(a.content, "\"", 0) = -1
      [] a.shape = "bare" ->
            /\ a.content # ""
            /\ SkipToken(a.content, 0) = Len(a.content)
            /\ CharAt(a.content, 0) \notin {"{", "\""}
      [] OTHER -> FALSE

AllRecognized(b) == \A i \in 1..Len(b) : Recognized(b[i])

\* the name the assignment is stored under
StoredName(a) == ToLowerCase(a.name)

\* the indices of the assignments of b that share the name of the i-th
SameName(b, i) == {j \in 1..Len(b) : StoredName(b[j]) = StoredName(b[i])}

SetMax(S) == CHOOSE x \in S : \A y \in S : y <= x

-----------------------------------------------------------------------------
(* Claims about parse, under SpecParse *)

\* the kinds of the items of a document
KindsOf(d) == {Items[d[i]].kind : i \in 1..Len(d)}

\* the result holds the entry of the i-th item of the document
Returned(i) == \E k \in 1..Len(Result) : Result[k] = EntryOfItem(doc[i])

\* C1: in a document of entries, string macros, comment lines and unterminated
\* entries, parse returns as many entries as there are entry headers whose
\* type is not string and whose braces balance; a header inside a field value
\* of another entry adds none.
C1_EntryCountEqualsHeaders ==
    (/\ pc = "done"
     /\ KindsOf(doc) \subseteq
            {"entry", "nested", "string", "comment", "unterminated"})
    => Len(Result) =
            Cardinality({i \in 1..Len(doc) :
                            Items[doc[i]].kind \in {"entry", "nested"}})

\* C2: when a document holds an entry whose braces never close, that entry is
\* not returned and every well-formed entry of the document, before or after
\* it, is returned with its fields decoded.
C2_UnterminatedDroppedOthersKept ==
    (/\ pc = "done"
     /\ "unterminated" \in KindsOf(doc)
     /\ KindsOf(doc) \subseteq {"entry", "string", "comment", "unterminated"})
    => \A i \in 1..Len(doc) :
          /\ Items[doc[i]].kind = "unterminated"
                => \A k \in 1..Len(Result) : Result[k].key # Items[doc[i]].key
          /\ Items[doc[i]].kind = "entry" => Returned(i)

\* C3: every entry parse returns, whatever the input, has a non-empty type and
\* a non-empty key.
C3_TypeAndKeyNonEmpty ==
    pc = "done"
    => \A k \in 1..Len(Result) : Result[k].type # "" /\ Result[k].key # ""

\* C7: a % inside a brace-delimited field value is no comment: it stays part
\* of the value and the entry that holds it is returned.
C7_PercentInsideValueKept ==
    (/\ pc = "done"
     /\ KindsOf(doc) \subseteq {"entry", "comment", "percent"})
    => \A i \in 1..Len(doc) : Items[doc[i]].kind = "percent" => Returned(i)

\* C10: for every entry parse returns, the closing brace it found does not lie
\* before the comma that ends the key, and the body handed to parseFields is
\* the text from right after that comma to right before that brace.
C10_BodyBetweenCommaAndClosingBrace ==
    pc = "done"
    => LET s == Cleaned(inputs[1])
           starts == EntryStarts(s)
       IN  \A k \in 1..Len(starts) :
              ScanEntry(s, starts[k]).braceCount = 0
              => LET close == ScanEntry(s, starts[k]).i - 1
                 IN  /\ starts[k].afterComma <= close
                     /\ FieldsString(s, starts[k])
                            = SubSeq(s, starts[k].afterComma + 1, close)

-----------------------------------------------------------------------------
(* Claims about the instance, under Spec *)

\* what parse returns for a text on a newly constructed instance
FreshResult(text) ==
    LET r == ResetEntries(<< << >> >>, 1)
    IN  PushAll(r.heap, r.entries, ParseEntries(text))[r.entries]

\* C8: after any sequence of parse calls on one instance, the list each call
\* returned holds what a fresh instance returns for the same text, whatever
\* the calls before and after it were.
C8_CallsIndependent ==
    \A i \in 1..Len(returned) : heap[returned[i]] = FreshResult(inputs[i])

\* C8, its case: a second call with another text after a call that returned
\* entries
C8_TwoCallsWitness ==
    /\ Len(returned) >= 2
    /\ heap[returned[1]] # << >>
    /\ heap[returned[2]] # << >>
    /\ inputs[1] # inputs[2]
    /\ entries = returned[Len(returned)]

-----------------------------------------------------------------------------
(* Claims about parseFields, under SpecFields *)

\* C4: every value parseFields stores is trimmed and non-empty; an assignment
\* whose value is empty after trimming adds no key.
C4_StoredValuesTrimmedNonEmpty ==
    pc = "done"
    => \A n \in DOMAIN fields : fields[n] # "" /\ fields[n] = Trim(fields[n])

\* C5: an assignment whose value has none of the three recognized shapes adds
\* no key, and the recognized assignments of the same body are decoded.
C5_UnrecognizedSkipped ==
    (pc = "done" /\ ~AllRecognized(body))
    => \A i \in 1..Len(body) :
          SameName(body, i) = {i}
          => IF Recognized(body[i])
             THEN Trim(body[i].content) # ""
                  => /\ StoredName(body[i]) \in DOMAIN fields
                     /\ fields[StoredName(body[i])] = Trim(body[i].content)
             ELSE StoredName(body[i]) \notin DOMAIN fields

\* C6 as stated: when several assignments share a name, the value stored for
\* it is the value of the last of them.
C6_LastAssignmentWins ==
    (pc = "done" /\ AllRecognized(body))
    => \A i \in 1..Len(body) :
          (Cardinality(SameName(body, i)) > 1
             /\ StoredName(body[i]) \in DOMAIN fields)
          => fields[StoredName(body[i])]
                = Trim(body[SetMax(SameName(body, i))].content)

\* the assignments that share the name of the i-th and whose value is not the
\* empty string
SameNameNonEmpty(b, i) == {j \in SameName(b, i) : b[j].content # ""}

\* C6 as amended: when several assignments share a name, the value stored for
\* it is the trimmed value of the last of them whose value is not the empty
\* string; if all of them are empty, the name is not stored.
C6_LastNonEmptyAssignmentWins ==
    (pc = "done" /\ AllRecognized(body))
    => \A i \in 1..Len(body) :
          Cardinality(SameName(body, i)) > 1
          => IF SameNameNonEmpty(body, i) = {}
             THEN StoredName(body[i]) \notin DOMAIN fields
             ELSE /\ StoredName(body[i]) \in DOMAIN fields
                  /\ fields[StoredName(body[i])]
                        = Trim(body[SetMax(SameNameNonEmpty(body, i))].content)

\* C6, its case: two assignments of one name with different values, the
\* second one stored
C6_DuplicateWitness ==
    /\ pc = "done"
    /\ AllRecognized(body)
    /\ \E i, j \in 1..Len(body) :
          /\ i < j
          /\ j = SetMax(SameName(body, i))
          /\ body[i].content # ""
          /\ Trim(body[j].content) # ""
          /\ Trim(body[i].content) # Trim(body[j].content)
          /\ fields[StoredName(body[i])] = Trim(body[j].content)

\* C9: a brace-delimited value whose content holds brace groups nested one
\* level deep is stored as that content, the outermost pair of braces removed
\* and the inner pairs kept (the content is trimmed, as every value is).
C9_NestedBracesKept ==
    (pc = "done" /\ AllRecognized(body))
    => \A i \in 1..Len(body) :
          (/\ body[i].shape = "brace"
           /\ BraceDepth(body[i].content) = 1
           /\ i = SetMax(SameNameNonEmpty(body, i)))
          => /\ StoredName(body[i]) \in DOMAIN fields
             /\ fields[StoredName(body[i])] = Trim(body[i].content)

\* C9, its case: {nested {inner} text} is stored as nested {inner} text
C9_NestedWitness ==
    /\ pc = "done"
    /\ \E i \in 1..Len(body) :
          /\ ValueText(body[i]) = "{nested {inner} text}"
          /\ fields[StoredName(body[i])] = "nested {inner} text"

====
